---- MODULE Spec2Model ----
(***************************************************************************)
(* Model of research_agent.py: the tracer (AgentLogger), the session store *)
(* (InMemorySessionService), the long-term memory (MemoryBank), the two    *)
(* tools, the three agents, the orchestrator (ResearchAgentSystem) and the *)
(* evaluator (AgentEvaluator).                                             *)
(*                                                                         *)
(* Python strings are sequences of pieces [s |-> text, n |-> k]: the first *)
(* k characters of the text s.  CharsOf gives the characters of a text, so *)
(* that slicing (x[:100]), len(), str() of a dict and the `in` substring   *)
(* test are computed on characters, as the code computes them.             *)
(***************************************************************************)
EXTENDS Integers, Sequences, FiniteSets, TLC

\* ------------------------------------------------------------ strings
\* The characters of every multi-character text the program uses (string
\* literals of the source, dict keys, the session ids of the model).  A text
\* of one character is its own character.
CharsOf(s) ==
  CASE s = "No previous research in this session." ->
       <<"N", "o", " ", "p", "r", "e", "v", "i", "o", "u", "s", " ", "r", "e", "s", "e", "a", "r", "c", "h", " ", "i", "n", " ", "t", "h", "i", "s", " ", "s", "e", "s", "s", "i", "o", "n", ".">>
    [] s = "Previous research in this session (" ->
       <<"P", "r", "e", "v", "i", "o", "u", "s", " ", "r", "e", "s", "e", "a", "r", "c", "h", " ", "i", "n", " ", "t", "h", "i", "s", " ", "s", "e", "s", "s", "i", "o", "n", " ", "(">>
    [] s = " queries):\n" ->
       <<" ", "q", "u", "e", "r", "i", "e", "s", ")", ":", "\n">>
    [] s = ". " ->
       <<".", " ">>
    [] s = ": " ->
       <<":", " ">>
    [] s = ", " ->
       <<",", " ">>
    [] s = "...\n" ->
       <<".", ".", ".", "\n">>
    [] s = "Research Result " ->
       <<"R", "e", "s", "e", "a", "r", "c", "h", " ", "R", "e", "s", "u", "l", "t", " ">>
    [] s = " for: " ->
       <<" ", "f", "o", "r", ":", " ">>
    [] s = "https://example.com/result" ->
       <<"h", "t", "t", "p", "s", ":", "/", "/", "e", "x", "a", "m", "p", "l", "e", ".", "c", "o", "m", "/", "r", "e", "s", "u", "l", "t">>
    [] s = "This source provides information about " ->
       <<"T", "h", "i", "s", " ", "s", "o", "u", "r", "c", "e", " ", "p", "r", "o", "v", "i", "d", "e", "s", " ", "i", "n", "f", "o", "r", "m", "a", "t", "i", "o", "n", " ", "a", "b", "o", "u", "t", " ">>
    [] s = ". Key findings include relevant data points and analysis." ->
       <<".", " ", "K", "e", "y", " ", "f", "i", "n", "d", "i", "n", "g", "s", " ", "i", "n", "c", "l", "u", "d", "e", " ", "r", "e", "l", "e", "v", "a", "n", "t", " ", "d", "a", "t", "a", " ", "p", "o", "i", "n", "t", "s", " ", "a", "n", "d", " ", "a", "n", "a", "l", "y", "s", "i", "s", ".">>
    [] s = "Based on " ->
       <<"B", "a", "s", "e", "d", " ", "o", "n", " ">>
    [] s = " sources, the key insights are:\n" ->
       <<" ", "s", "o", "u", "r", "c", "e", "s", ",", " ", "t", "h", "e", " ", "k", "e", "y", " ", "i", "n", "s", "i", "g", "h", "t", "s", " ", "a", "r", "e", ":", "\n">>
    [] s = "\nPrevious insights: " ->
       <<"\n", "P", "r", "e", "v", "i", "o", "u", "s", " ", "i", "n", "s", "i", "g", "h", "t", "s", ":", " ">>
    [] s = " latest developments" ->
       <<" ", "l", "a", "t", "e", "s", "t", " ", "d", "e", "v", "e", "l", "o", "p", "m", "e", "n", "t", "s">>
    [] s = " expert analysis" ->
       <<" ", "e", "x", "p", "e", "r", "t", " ", "a", "n", "a", "l", "y", "s", "i", "s">>
    [] s = "session_" ->
       <<"s", "e", "s", "s", "i", "o", "n", "_">>
    [] s = "research_planning" ->
       <<"r", "e", "s", "e", "a", "r", "c", "h", "_", "p", "l", "a", "n", "n", "i", "n", "g">>
    [] s = "research_execution" ->
       <<"r", "e", "s", "e", "a", "r", "c", "h", "_", "e", "x", "e", "c", "u", "t", "i", "o", "n">>
    [] s = "synthesis" ->
       <<"s", "y", "n", "t", "h", "e", "s", "i", "s">>
    [] s = "True" ->
       <<"T", "r", "u", "e">>
    [] s = "False" ->
       <<"F", "a", "l", "s", "e">>
    [] s = "\\n" ->
       <<"\\", "n">>
    [] s = "\\\\" ->
       <<"\\", "\\">>
    [] s = "query" ->
       <<"q", "u", "e", "r", "y">>
    [] s = "num_results" ->
       <<"n", "u", "m", "_", "r", "e", "s", "u", "l", "t", "s">>
    [] s = "results_count" ->
       <<"r", "e", "s", "u", "l", "t", "s", "_", "c", "o", "u", "n", "t">>
    [] s = "findings_count" ->
       <<"f", "i", "n", "d", "i", "n", "g", "s", "_", "c", "o", "u", "n", "t">>
    [] s = "task" ->
       <<"t", "a", "s", "k">>
    [] s = "duration_seconds" ->
       <<"d", "u", "r", "a", "t", "i", "o", "n", "_", "s", "e", "c", "o", "n", "d", "s">>
    [] s = "search_queries" ->
       <<"s", "e", "a", "r", "c", "h", "_", "q", "u", "e", "r", "i", "e", "s">>
    [] s = "num_sources" ->
       <<"n", "u", "m", "_", "s", "o", "u", "r", "c", "e", "s">>
    [] s = "synthesis_required" ->
       <<"s", "y", "n", "t", "h", "e", "s", "i", "s", "_", "r", "e", "q", "u", "i", "r", "e", "d">>
    [] s = "context" ->
       <<"c", "o", "n", "t", "e", "x", "t">>
    [] s = "output_length" ->
       <<"o", "u", "t", "p", "u", "t", "_", "l", "e", "n", "g", "t", "h">>
    [] s = "sources_count" ->
       <<"s", "o", "u", "r", "c", "e", "s", "_", "c", "o", "u", "n", "t">>
    [] s = "session_id" ->
       <<"s", "e", "s", "s", "i", "o", "n", "_", "i", "d">>
    [] s = "total_queries" ->
       <<"t", "o", "t", "a", "l", "_", "q", "u", "e", "r", "i", "e", "s">>
    [] s = "total_tasks_completed" ->
       <<"t", "o", "t", "a", "l", "_", "t", "a", "s", "k", "s", "_", "c", "o", "m", "p", "l", "e", "t", "e", "d">>
    [] s = "total_time_seconds" ->
       <<"t", "o", "t", "a", "l", "_", "t", "i", "m", "e", "_", "s", "e", "c", "o", "n", "d", "s">>
    [] s = "avg_time_per_query" ->
       <<"a", "v", "g", "_", "t", "i", "m", "e", "_", "p", "e", "r", "_", "q", "u", "e", "r", "y">>
    [] s = "memory_entries" ->
       <<"m", "e", "m", "o", "r", "y", "_", "e", "n", "t", "r", "i", "e", "s">>
    [] s = "s1" ->
       <<"s", "1">>
    [] s = "s2" ->
       <<"s", "2">>
    [] s = "s10" ->
       <<"s", "1", "0">>
    [] s = "_completed" ->
       <<"_", "c", "o", "m", "p", "l", "e", "t", "e", "d">>
    [] s = "search_initiated" ->
       <<"s", "e", "a", "r", "c", "h", "_", "i", "n", "i", "t", "i", "a", "t", "e", "d">>
    [] s = "search_completed" ->
       <<"s", "e", "a", "r", "c", "h", "_", "c", "o", "m", "p", "l", "e", "t", "e", "d">>
    [] s = "synthesis_started" ->
       <<"s", "y", "n", "t", "h", "e", "s", "i", "s", "_", "s", "t", "a", "r", "t", "e", "d">>
    [] s = "task_started" ->
       <<"t", "a", "s", "k", "_", "s", "t", "a", "r", "t", "e", "d">>
    [] s = "task_completed" ->
       <<"t", "a", "s", "k", "_", "c", "o", "m", "p", "l", "e", "t", "e", "d">>
    [] s = "research_plan_created" ->
       <<"r", "e", "s", "e", "a", "r", "c", "h", "_", "p", "l", "a", "n", "_", "c", "r", "e", "a", "t", "e", "d">>
    [] s = "research_started" ->
       <<"r", "e", "s", "e", "a", "r", "c", "h", "_", "s", "t", "a", "r", "t", "e", "d">>
    [] s = "research_completed" ->
       <<"r", "e", "s", "e", "a", "r", "c", "h", "_", "c", "o", "m", "p", "l", "e", "t", "e", "d">>
    [] s = "synthesis_completed" ->
       <<"s", "y", "n", "t", "h", "e", "s", "i", "s", "_", "c", "o", "m", "p", "l", "e", "t", "e", "d">>
    [] s = "evaluation_completed" ->
       <<"e", "v", "a", "l", "u", "a", "t", "i", "o", "n", "_", "c", "o", "m", "p", "l", "e", "t", "e", "d">>
    [] s = "note" ->
       <<"n", "o", "t", "e">>
    [] s = "tags" ->
       <<"t", "a", "g", "s">>
    [] s = "manual_step" ->
       <<"m", "a", "n", "u", "a", "l", "_", "s", "t", "e", "p">>
    [] OTHER -> <<s>>

\* the texts of more than one character
Texts ==
  {"No previous research in this session.",
   "Previous research in this session (",
   " queries):\n",
   ". ",
   ": ",
   ", ",
   "...\n",
   "Research Result ",
   " for: ",
   "https://example.com/result",
   "This source provides information about ",
   ". Key findings include relevant data points and analysis.",
   "Based on ",
   " sources, the key insights are:\n",
   "\nPrevious insights: ",
   " latest developments",
   " expert analysis",
   "session_",
   "research_planning",
   "research_execution",
   "synthesis",
   "True",
   "False",
   "\\n",
   "\\\\",
   "query",
   "num_results",
   "results_count",
   "findings_count",
   "task",
   "duration_seconds",
   "search_queries",
   "num_sources",
   "synthesis_required",
   "context",
   "output_length",
   "sources_count",
   "session_id",
   "total_queries",
   "total_tasks_completed",
   "total_time_seconds",
   "avg_time_per_query",
   "memory_entries",
   "s1",
   "s2",
   "s10",
   "_completed",
   "search_initiated",
   "search_completed",
   "synthesis_started",
   "task_started",
   "task_completed",
   "research_plan_created",
   "research_started",
   "research_completed",
   "synthesis_completed",
   "evaluation_completed",
   "note",
   "tags",
   "manual_step"}

RECURSIVE Concat(_)
\* "".join(parts)
Concat(parts) ==
  IF parts = <<>> THEN <<>> ELSE Head(parts) \o Concat(Tail(parts))

\* the characters of the texts, looked up once
TextChars == [s \in Texts |-> CharsOf(s)]

\* the characters of the text s
CharsIn(s) == IF s \in Texts THEN TextChars[s] ELSE <<s>>

\* a string literal
Lit(s) == <<[s |-> s, n |-> Len(CharsIn(s))]>>

RECURSIVE StrLen(_)
\* len(x)
StrLen(x) == IF x = <<>> THEN 0 ELSE Head(x).n + StrLen(Tail(x))

RECURSIVE Take(_, _)
\* x[:k]
Take(x, k) ==
  IF x = <<>> \/ k <= 0 THEN <<>>
  ELSE IF Head(x).n <= k THEN <<Head(x)>> \o Take(Tail(x), k - Head(x).n)
  ELSE <<[s |-> Head(x).s, n |-> k]>>

RECURSIVE Chars(_)
\* the characters of x, one by one
Chars(x) ==
  IF x = <<>> THEN <<>>
  ELSE SubSeq(CharsIn(Head(x).s), 1, Head(x).n) \o Chars(Tail(x))

Digit(d) ==
  CASE d = 0 -> "0" [] d = 1 -> "1" [] d = 2 -> "2" [] d = 3 -> "3"
    [] d = 4 -> "4" [] d = 5 -> "5" [] d = 6 -> "6" [] d = 7 -> "7"
    [] d = 8 -> "8" [] d = 9 -> "9"

RECURSIVE IntStr(_)
\* str(k) of an int k >= 0, as in an f-string
IntStr(k) ==
  IF k < 10 THEN Lit(Digit(k)) ELSE IntStr(k \div 10) \o Lit(Digit(k % 10))

\* ------------------------------------------------------------ values
\* The values a details dict holds, one record shape per Python type.
VStr(x) == [t |-> "str", s |-> x]
VInt(k) == [t |-> "int", i |-> k]
\* a float, in hundredths (every float the program logs is rounded to 2 places)
VFloat(c) == [t |-> "float", f |-> c]
VBool(b) == [t |-> "bool", b |-> b]
VList(l) == [t |-> "list", l |-> l]
\* a set of one string: a value json.dumps cannot encode
VSet(x) == [t |-> "set", e |-> x]

\* one key of a dict, with its value; a dict is the sequence of its items in
\* insertion order
Item(k, v) == [k |-> k, v |-> v]

\* round(x, 2) keeps hundredths
Centi == 100

\* dict.get(key, default)
Get(d, key, default) ==
  IF \E i \in 1..Len(d) : d[i].k = key
  THEN d[CHOOSE i \in 1..Len(d) : d[i].k = key].v
  ELSE default

HasKey(d, key) == \E i \in 1..Len(d) : d[i].k = key

\* json.dumps(details) raises TypeError on a value it cannot encode
Serializable(d) == \A i \in 1..Len(d) : d[i].v.t # "set"

\* ------------------------------------------------------------ str(dict)
\* repr of one character of a str: a newline is written \n, a backslash \\
EscapeChar(c) ==
  IF c = "\n" THEN CharsIn("\\n")
  ELSE IF c = "\\" THEN CharsIn("\\\\")
  ELSE <<c>>

RECURSIVE EscapeChars(_)
\* the characters of x, each one escaped, piece after piece
EscapeChars(x) ==
  IF x = <<>> THEN <<>>
  ELSE LET cs == SubSeq(CharsIn(Head(x).s), 1, Head(x).n)
       IN  (IF \E i \in 1..Len(cs) : cs[i] \in {"\n", "\\"}
            THEN Concat([i \in 1..Len(cs) |-> EscapeChar(cs[i])])
            ELSE cs) \o EscapeChars(Tail(x))

\* repr(x) of a str x (no quote character occurs in the strings of the model)
ReprStr(x) == <<"'">> \o EscapeChars(x) \o <<"'">>

RECURSIVE ReprList(_)
\* the items of repr(list of str), separated by ", "
ReprList(l) ==
  IF l = <<>> THEN <<>>
  ELSE ReprStr(Head(l)) \o (IF Len(l) > 1 THEN CharsIn(", ") ELSE <<>>)
       \o ReprList(Tail(l))

\* repr(x) of a float x given in hundredths: 150 is 1.5, 100 is 1.0
ReprFloat(c) ==
  LET whole == c \div Centi
      frac == c % Centi
  IN  Chars(IntStr(whole)) \o <<".">> \o
      (IF frac % 10 = 0 THEN <<Digit(frac \div 10)>>
       ELSE <<Digit(frac \div 10), Digit(frac % 10)>>)

ReprValue(v) ==
  CASE v.t = "str" -> ReprStr(v.s)
    [] v.t = "int" -> Chars(IntStr(v.i))
    [] v.t = "float" -> ReprFloat(v.f)
    [] v.t = "bool" -> IF v.b THEN CharsIn("True") ELSE CharsIn("False")
    [] v.t = "list" -> <<"[">> \o ReprList(v.l) \o <<"]">>
    [] v.t = "set" -> <<"{">> \o ReprStr(v.e) \o <<"}">>

RECURSIVE ReprItems(_)
ReprItems(d) ==
  IF d = <<>> THEN <<>>
  ELSE ReprStr(Lit(Head(d).k)) \o CharsIn(": ") \o ReprValue(Head(d).v)
       \o (IF Len(d) > 1 THEN CharsIn(", ") ELSE <<>>) \o ReprItems(Tail(d))

\* str(details)
StrDict(d) == <<"{">> \o ReprItems(d) \o <<"}">>

\* needle in hay, both given as characters
InChars(nc, hc) ==
  \E i \in 1..(Len(hc) - Len(nc) + 1) :
    \A j \in 1..Len(nc) : hc[i + j - 1] = nc[j]

\* action.endswith(suffix), on texts
EndsWith(action, suffix) ==
  LET ac == CharsIn(action)
      sc == CharsIn(suffix)
  IN  /\ Len(sc) <= Len(ac)
      /\ SubSeq(ac, Len(ac) - Len(sc) + 1, Len(ac)) = sc

\* ------------------------------------------------------------ tracer
\* AgentLogger.log appends the trace entry before it formats the message.
\* The timestamp is the clock reading the entry was made at.
TraceEntry(clock, agent_name, action, details) ==
  [timestamp |-> clock, agent |-> agent_name, action |-> action,
   details |-> details]

\* a log that keeps its last two entries only
log_bounded(tr, clock, agent_name, action, details) ==
  IF Len(tr) >= 2
  THEN Append(Tail(tr), TraceEntry(clock, agent_name, action, details))
  ELSE Append(tr, TraceEntry(clock, agent_name, action, details))

log(tr, clock, agent_name, action, details) ==
  Append(tr, TraceEntry(clock, agent_name, action, details))

\* ------------------------------------------------------------ sessions
\* sessions is a dict: a function whose domain is the set of its keys.
create_session(ss, session_id) ==
  [k \in DOMAIN ss \cup {session_id} |->
     IF k = session_id THEN <<>> ELSE ss[k]]

\* self.sessions[session_id].insert(0, context)
append_context_front(ss, session_id, context) ==
  [ss EXCEPT ![session_id] = <<context>> \o @]

\* self.sessions[session_id].append(context)
append_context(ss, session_id, context) ==
  [ss EXCEPT ![session_id] = Append(@, context)]

\* a lookup that answers an absent session with one blank context
get_session_history_blank(ss, session_id) ==
  IF session_id \in DOMAIN ss THEN ss[session_id]
  ELSE <<[query |-> <<>>, sources |-> <<>>, findings |-> <<>>,
          synthesis |-> <<>>, timestamp |-> 0]>>

get_session_history(ss, session_id) ==
  IF session_id \in DOMAIN ss THEN ss[session_id] ELSE <<>>

ResearchContext(query, sources, findings, synthesis, timestamp) ==
  [query |-> query, sources |-> sources, findings |-> findings,
   synthesis |-> synthesis, timestamp |-> timestamp]

\* history[-3:] and the slices of the orchestrator
SummaryWindow == 3
SummaryChars == 100

\* the whole list, whatever k
whole_list(x, k) == x

\* x[-k:] of a list
LastK(x, k) == IF Len(x) <= k THEN x ELSE SubSeq(x, Len(x) - k + 1, Len(x))

\* x[:k] of a list
FirstK(x, k) == IF Len(x) <= k THEN x ELSE SubSeq(x, 1, k)

get_context_summary(ss, session_id) ==
  LET history == get_session_history(ss, session_id)
      window == LastK(history, SummaryWindow)
      line(i) == IntStr(i) \o Lit(". ") \o window[i].query \o Lit(": ")
                 \o Take(window[i].synthesis, SummaryChars) \o Lit("...\n")
  IN  IF history = <<>> THEN Lit("No previous research in this session.")
      ELSE Lit("Previous research in this session (") \o IntStr(Len(history))
           \o Lit(" queries):\n")
           \o Concat([i \in 1..Len(window) |-> line(i)])

\* ------------------------------------------------------------ memory
\* self.knowledge_base[topic] = []
create_topic(kb, topic) ==
  [k \in DOMAIN kb \cup {topic} |-> IF k = topic THEN <<>> ELSE kb[k]]

\* self.knowledge_base[topic] = [{...}]
append_insight_replacing(kb, topic, insight, clock) ==
  [kb EXCEPT ![topic] = <<[insight |-> insight, timestamp |-> clock]>>]

\* self.knowledge_base[topic].append({...})
append_insight(kb, topic, insight, clock) ==
  [kb EXCEPT ![topic] = Append(@, [insight |-> insight, timestamp |-> clock])]

retrieve_insights(kb, topic) ==
  IF topic \in DOMAIN kb
  THEN [i \in 1..Len(kb[topic]) |-> kb[topic][i].insight]
  ELSE <<>>

\* ------------------------------------------------------------ tools
\* WebSearchTool.search: the results list (range(num_results), numbered i+1)
search_results(query, num_results) ==
  [i \in 1..num_results |->
     [title |-> Lit("Research Result ") \o IntStr(i) \o Lit(" for: ") \o query,
      url |-> Lit("https://example.com/result") \o IntStr(i),
      snippet |-> Lit("This source provides information about ") \o query
                  \o Lit(". Key findings include relevant data points and analysis.")]]

\* the two entries WebSearchTool.search logs around building its results
search_log(tr, clock, query, num_results) ==
  log(log(tr, clock, "WebSearchTool", "search_initiated",
          <<Item("query", VStr(query)), Item("num_results", VInt(num_results))>>),
      clock, "WebSearchTool", "search_completed",
      <<Item("results_count", VInt(Len(search_results(query, num_results))))>>)

SynthesisFindings == 3

\* SynthesisTool.synthesize: the text it returns
tool_synthesize(findings) ==
  LET shown == FirstK(findings, SynthesisFindings)
  IN  Lit("Based on ") \o IntStr(Len(findings))
      \o Lit(" sources, the key insights are:\n")
      \o Concat([i \in 1..Len(shown) |-> IntStr(i) \o Lit(". ") \o shown[i] \o Lit("\n")])

\* ------------------------------------------------------------ agents
NumSources == 5

generate_search_queries(query) ==
  <<query, query \o Lit(" latest developments"), query \o Lit(" expert analysis")>>

\* the plan dict of CoordinatorAgent.plan_research
make_plan(ss, query, session_id) ==
  <<Item("query", VStr(query)),
    Item("search_queries", VList(generate_search_queries(query))),
    Item("num_sources", VInt(NumSources)),
    Item("synthesis_required", VBool(TRUE)),
    Item("context", VStr(get_context_summary(ss, session_id)))>>

\* findings taken from the last result to the first
findings_of_reversed(results) ==
  [i \in 1..Len(results) |->
     results[Len(results) + 1 - i].title \o Lit(": ")
     \o results[Len(results) + 1 - i].snippet]

\* the findings one search contributes to ResearcherAgent.conduct_research
findings_of(results) ==
  [i \in 1..Len(results) |-> results[i].title \o Lit(": ") \o results[i].snippet]

PriorAnnotation(past_insights) == Lit("\nPrevious insights: ") \o past_insights[1]

InsightChars == 200

\* a synthesizer that leaves the past insights out of its text
annotate_unread(synthesis, past_insights) == synthesis

\* SynthesizerAgent.synthesize: the text it returns, from the tool's text
annotate(synthesis, past_insights) ==
  IF past_insights # <<>> THEN synthesis \o PriorAnnotation(past_insights)
  ELSE synthesis

SourceResults == 3
ContextFindings == 5

\* "session_" + str(int(time.time()))
generated_session_id(clock) == Lit("session_") \o IntStr(clock)

\* ------------------------------------------------------------ bounds
\* the clock reads 0..MaxTime (whole seconds)
MaxTime == 1
\* calls made on the system in one run
MaxCalls == 2

Threads == {"t1", "t2"}
\* the thread of a run with one caller
Main == "t1"

Queries == {Lit("X"), Lit("Y")}
SessionIds == {Lit("s1"), Lit("s2")}
\* a falsy session_id argument: None, or the empty string
NoSession == <<>>

Agents == {"CoordinatorAgent", "ResearcherAgent", "SynthesizerAgent"}

\* what a caller hands to AgentLogger.log directly: the second details dict
\* holds a set, which json.dumps cannot encode
LogInputs ==
  {[agent |-> "User", action |-> "manual_step",
    details |-> <<Item("note", VStr(Lit("s1")))>>],
   [agent |-> "User", action |-> "manual_step",
    details |-> <<Item("tags", VSet(Lit("s1")))>>]}

\* ------------------------------------------------------------ state
VARIABLES
  traces,              \* AgentLogger.traces
  trace_file,          \* what export_traces last wrote: <<>> or <<the list>>
  sessions,            \* InMemorySessionService.sessions
  current_session_id,  \* <<>> is None, <<id>> an id
  knowledge_base,      \* MemoryBank.knowledge_base
  start_time,          \* BaseAgent.start_time of each agent: <<>> is None
  end_time,            \* BaseAgent.end_time of each agent
  now,                 \* time.time(), in whole seconds
  calls,               \* calls begun so far
  th                   \* each thread: its position, its locals, its last result

vars == <<traces, trace_file, sessions, current_session_id, knowledge_base,
          start_time, end_time, now, calls, th>>

\* A thread between calls.  status, ret_* are the outcome of its last call and
\* pre_* the stores as they were when that call began; task_started is the
\* clock reading of the call's own last _start_task.
IdleFrame ==
  [pc |-> "idle", op |-> "none", query |-> <<>>, arg_session |-> <<>>,
   session_id |-> <<>>, topic |-> <<>>, insight |-> <<>>, context |-> <<>>,
   plan |-> <<>>, idx |-> 0, findings |-> <<>>, past_insights |-> <<>>,
   task_started |-> <<>>,
   synthesis |-> <<>>, status |-> "none", ret_str |-> <<>>, ret_dict |-> <<>>,
   ret_list |-> <<>>, pre_sessions |-> <<>>, pre_kb |-> <<>>,
   pre_traces |-> <<>>]

Init ==
  /\ traces = <<>>
  /\ trace_file = <<>>
  /\ sessions = <<>>
  /\ current_session_id = <<>>
  /\ knowledge_base = <<>>
  /\ start_time = [a \in Agents |-> <<>>]
  /\ end_time = [a \in Agents |-> <<>>]
  /\ now = 0
  /\ calls = 0
  /\ th = [t \in Threads |-> IdleFrame]

\* a call begins: the frame of the call, with the stores as they are now
Enter(t, op) ==
  [IdleFrame EXCEPT !.op = op, !.pre_sessions = sessions,
                    !.pre_kb = knowledge_base, !.pre_traces = traces]

\* a call ends: the locals go, the arguments and the outcome stay
Leave(f, status) ==
  [IdleFrame EXCEPT !.op = f.op, !.query = f.query,
                    !.arg_session = f.arg_session, !.session_id = f.session_id,
                    !.topic = f.topic, !.insight = f.insight,
                    !.context = f.context, !.findings = f.findings,
                    !.status = status,
                    !.pre_sessions = f.pre_sessions, !.pre_kb = f.pre_kb,
                    !.pre_traces = f.pre_traces]

CanCall(t) == th[t].pc = "idle" /\ calls < MaxCalls

\* where a call spends its time: in the search and synthesis providers
WorkPoints == {"r_gather_search", "r_synth_body", "r_sources"}

\* the clock moves on, between calls or while a provider works
Tick ==
  /\ now < MaxTime
  /\ \/ \A t \in Threads : th[t].pc = "idle"
     \/ \E t \in Threads : th[t].pc \in WorkPoints
  /\ now' = now + 1
  /\ UNCHANGED <<traces, trace_file, sessions, current_session_id,
                 knowledge_base, start_time, end_time, calls, th>>

\* ------------------------------------------------------------ session store
\* InMemorySessionService.create_session, called directly
CallCreateSession(t, id) ==
  /\ CanCall(t)
  /\ calls' = calls + 1
  /\ sessions' = create_session(sessions, id)
  /\ current_session_id' = <<id>>
  /\ th' = [th EXCEPT ![t] =
       [Leave([Enter(t, "create_session") EXCEPT !.session_id = id], "ok")
          EXCEPT !.ret_str = id]]
  /\ UNCHANGED <<traces, trace_file, knowledge_base, start_time, end_time, now>>

\* the contexts a caller appends directly
DirectContexts ==
  {ResearchContext(q, <<>>, <<>>, tool_synthesize(<<>>), now) : q \in Queries}

\* InMemorySessionService.add_to_session, called directly
CallAddToSession(t, id, context) ==
  /\ CanCall(t)
  /\ calls' = calls + 1
  /\ th' = [th EXCEPT ![t] =
       [Enter(t, "add_to_session") EXCEPT !.pc = "add_check",
          !.session_id = id, !.context = <<context>>]]
  /\ UNCHANGED <<traces, trace_file, sessions, current_session_id,
                 knowledge_base, start_time, end_time, now>>

\* if session_id not in self.sessions:
AddCheck(t) ==
  /\ th[t].pc = "add_check"
  /\ th' = [th EXCEPT ![t].pc =
       IF th[t].session_id \notin DOMAIN sessions THEN "add_create"
       ELSE "add_append"]
  /\ UNCHANGED <<traces, trace_file, sessions, current_session_id,
                 knowledge_base, start_time, end_time, now, calls>>

\* self.create_session(session_id)
AddCreate(t) ==
  /\ th[t].pc = "add_create"
  /\ sessions' = create_session(sessions, th[t].session_id)
  /\ current_session_id' = <<th[t].session_id>>
  /\ th' = [th EXCEPT ![t].pc = "add_append"]
  /\ UNCHANGED <<traces, trace_file, knowledge_base, start_time, end_time,
                 now, calls>>

\* self.sessions[session_id].append(context); the caller goes on
AddAppend(t) ==
  /\ th[t].pc = "add_append"
  /\ sessions' = append_context(sessions, th[t].session_id, th[t].context[1])
  /\ th' = [th EXCEPT ![t] =
       IF th[t].op = "research" THEN [th[t] EXCEPT !.pc = "r_done"]
       ELSE Leave(th[t], "ok")]
  /\ UNCHANGED <<traces, trace_file, current_session_id, knowledge_base,
                 start_time, end_time, now, calls>>

\* ------------------------------------------------------------ memory bank
\* MemoryBank.store_insight, called directly
CallStoreInsight(t, topic, insight) ==
  /\ CanCall(t)
  /\ calls' = calls + 1
  /\ th' = [th EXCEPT ![t] =
       [Enter(t, "store_insight") EXCEPT !.pc = "store_check",
          !.topic = topic, !.insight = insight]]
  /\ UNCHANGED <<traces, trace_file, sessions, current_session_id,
                 knowledge_base, start_time, end_time, now>>

\* if topic not in self.knowledge_base:
StoreCheck(t) ==
  /\ th[t].pc = "store_check"
  /\ th' = [th EXCEPT ![t].pc =
       IF th[t].topic \notin DOMAIN knowledge_base THEN "store_create"
       ELSE "store_append"]
  /\ UNCHANGED <<traces, trace_file, sessions, current_session_id,
                 knowledge_base, start_time, end_time, now, calls>>

\* self.knowledge_base[topic] = []
StoreCreate(t) ==
  /\ th[t].pc = "store_create"
  /\ knowledge_base' = create_topic(knowledge_base, th[t].topic)
  /\ th' = [th EXCEPT ![t].pc = "store_append"]
  /\ UNCHANGED <<traces, trace_file, sessions, current_session_id,
                 start_time, end_time, now, calls>>

\* self.knowledge_base[topic].append({...}); the caller goes on
StoreAppend(t) ==
  /\ th[t].pc = "store_append"
  /\ knowledge_base' =
       append_insight(knowledge_base, th[t].topic, th[t].insight, now)
  /\ th' = [th EXCEPT ![t] =
       IF th[t].op = "store_insight" THEN Leave(th[t], "ok")
       ELSE [th[t] EXCEPT !.pc = "r_synth_end"]]
  /\ UNCHANGED <<traces, trace_file, sessions, current_session_id,
                 start_time, end_time, now, calls>>

\* MemoryBank.retrieve_insights, called directly
CallRetrieveInsights(t, topic) ==
  /\ CanCall(t)
  /\ calls' = calls + 1
  /\ th' = [th EXCEPT ![t] =
       [Leave([Enter(t, "retrieve_insights") EXCEPT !.topic = topic], "ok")
          EXCEPT !.ret_list = retrieve_insights(knowledge_base, topic)]]
  /\ UNCHANGED <<traces, trace_file, sessions, current_session_id,
                 knowledge_base, start_time, end_time, now>>

\* ------------------------------------------------------------ tracer
\* AgentLogger.log, called directly: the entry is appended, then json.dumps
\* formats the message and raises on details it cannot encode
CallLog(t, in) ==
  /\ CanCall(t)
  /\ calls' = calls + 1
  /\ traces' = log(traces, now, in.agent, in.action, in.details)
  /\ th' = [th EXCEPT ![t] =
       Leave(Enter(t, "log"),
             IF Serializable(in.details) THEN "ok" ELSE "raised")]
  /\ UNCHANGED <<trace_file, sessions, current_session_id, knowledge_base,
                 start_time, end_time, now>>

\* AgentLogger.get_traces
CallGetTraces(t) ==
  /\ CanCall(t)
  /\ calls' = calls + 1
  /\ th' = [th EXCEPT ![t] =
       [Leave(Enter(t, "get_traces"), "ok") EXCEPT !.ret_list = traces]]
  /\ UNCHANGED <<traces, trace_file, sessions, current_session_id,
                 knowledge_base, start_time, end_time, now>>

\* AgentLogger.export_traces: open() may raise; json.dump writes the entries
\* one after the other and raises at the first one it cannot encode
CallExportTraces(t, opens) ==
  /\ CanCall(t)
  /\ calls' = calls + 1
  /\ LET bad == {i \in 1..Len(traces) : ~Serializable(traces[i].details)}
         first == CHOOSE i \in bad : \A j \in bad : i <= j
     IN  /\ trace_file' = IF ~opens THEN trace_file
                          ELSE IF bad = {} THEN <<traces>>
                          ELSE <<SubSeq(traces, 1, first - 1)>>
         /\ th' = [th EXCEPT ![t] =
              Leave(Enter(t, "export_traces"),
                    IF opens /\ bad = {} THEN "ok" ELSE "raised")]
  /\ UNCHANGED <<traces, sessions, current_session_id, knowledge_base,
                 start_time, end_time, now>>

\* ------------------------------------------------------------ agents
\* a _start_task that logs nothing
start_task_unlogged(tr, clock, name, task_name) == tr

\* BaseAgent._start_task: the trace after it
start_task(tr, clock, name, task_name) ==
  log(tr, clock, name, "task_started", <<Item("task", VStr(Lit(task_name)))>>)

\* BaseAgent._end_task: the trace after it; started is self.start_time
end_task(tr, clock, name, task_name, started) ==
  log(tr, clock, name, "task_completed",
      <<Item("task", VStr(Lit(task_name))),
        Item("duration_seconds", VFloat((clock - started) * Centi))>>)

\* ------------------------------------------------------------ orchestrator
\* ResearchAgentSystem.research up to the research_started entry: a falsy
\* session_id is replaced by a generated one, whose session is created
CallResearch(t, query, session_id) ==
  /\ CanCall(t)
  /\ calls' = calls + 1
  /\ LET sid == IF session_id = NoSession THEN generated_session_id(now)
                ELSE session_id
     IN  /\ sessions' = IF session_id = NoSession
                        THEN create_session(sessions, sid) ELSE sessions
         /\ current_session_id' = IF session_id = NoSession THEN <<sid>>
                                  ELSE current_session_id
         /\ traces' = log(traces, now, "ResearchAgentSystem", "research_started",
                          <<Item("query", VStr(query)),
                            Item("session_id", VStr(sid))>>)
         /\ th' = [th EXCEPT ![t] =
              [Enter(t, "research") EXCEPT !.pc = "r_plan_start",
                 !.query = query, !.arg_session = session_id,
                 !.session_id = sid]]
  /\ UNCHANGED <<trace_file, knowledge_base, start_time, end_time, now>>

\* CoordinatorAgent.plan_research: self._start_task("research_planning")
PlanStart(t) ==
  /\ th[t].pc = "r_plan_start"
  /\ start_time' = [start_time EXCEPT !["CoordinatorAgent"] = <<now>>]
  /\ traces' = start_task(traces, now, "CoordinatorAgent", "research_planning")
  /\ th' = [th EXCEPT ![t].pc = "r_plan_body", ![t].task_started = <<now>>]
  /\ UNCHANGED <<trace_file, sessions, current_session_id, knowledge_base,
                 end_time, now, calls>>

\* the plan is built from the session's summary and logged
PlanBody(t) ==
  /\ th[t].pc = "r_plan_body"
  /\ LET plan == make_plan(sessions, th[t].query, th[t].session_id)
     IN  /\ traces' = log(traces, now, "CoordinatorAgent",
                          "research_plan_created", plan)
         /\ th' = [th EXCEPT ![t].pc = "r_plan_end", ![t].plan = plan]
  /\ UNCHANGED <<trace_file, sessions, current_session_id, knowledge_base,
                 start_time, end_time, now, calls>>

\* self._end_task("research_planning")
PlanEnd(t) ==
  /\ th[t].pc = "r_plan_end"
  /\ end_time' = [end_time EXCEPT !["CoordinatorAgent"] = <<now>>]
  /\ traces' = end_task(traces, now, "CoordinatorAgent", "research_planning",
                        start_time["CoordinatorAgent"][1])
  /\ th' = [th EXCEPT ![t].pc = "r_gather_start"]
  /\ UNCHANGED <<trace_file, sessions, current_session_id, knowledge_base,
                 start_time, now, calls>>

\* ResearcherAgent.conduct_research: self._start_task("research_execution")
GatherStart(t) ==
  /\ th[t].pc = "r_gather_start"
  /\ start_time' = [start_time EXCEPT !["ResearcherAgent"] = <<now>>]
  /\ traces' = start_task(traces, now, "ResearcherAgent", "research_execution")
  /\ th' = [th EXCEPT ![t].pc = "r_gather_search", ![t].idx = 1,
                      ![t].findings = <<>>, ![t].task_started = <<now>>]
  /\ UNCHANGED <<trace_file, sessions, current_session_id, knowledge_base,
                 end_time, now, calls>>

\* one turn of the loop over plan["search_queries"]: the search either
\* returns its results or raises between its two log entries
GatherSearch(t, raises) ==
  /\ th[t].pc = "r_gather_search"
  /\ LET search_query == Get(th[t].plan, "search_queries", VList(<<>>)).l[th[t].idx]
         num_sources == Get(th[t].plan, "num_sources", VInt(0)).i
         last == th[t].idx = Len(Get(th[t].plan, "search_queries", VList(<<>>)).l)
     IN  IF raises
         THEN /\ traces' = log(traces, now, "WebSearchTool", "search_initiated",
                               <<Item("query", VStr(search_query)),
                                 Item("num_results", VInt(num_sources))>>)
              /\ th' = [th EXCEPT ![t] = Leave(th[t], "raised")]
         ELSE /\ traces' = search_log(traces, now, search_query, num_sources)
              /\ th' = [th EXCEPT
                   ![t].findings =
                      @ \o findings_of(search_results(search_query, num_sources)),
                   ![t].idx = @ + 1,
                   ![t].pc = IF last THEN "r_gather_end" ELSE "r_gather_search"]
  /\ UNCHANGED <<trace_file, sessions, current_session_id, knowledge_base,
                 start_time, end_time, now, calls>>

\* the research_completed entry and self._end_task("research_execution")
GatherEnd(t) ==
  /\ th[t].pc = "r_gather_end"
  /\ end_time' = [end_time EXCEPT !["ResearcherAgent"] = <<now>>]
  /\ traces' = end_task(
       log(traces, now, "ResearcherAgent", "research_completed",
           <<Item("findings_count", VInt(Len(th[t].findings)))>>),
       now, "ResearcherAgent", "research_execution",
       start_time["ResearcherAgent"][1])
  /\ th' = [th EXCEPT ![t].pc = "r_synth_start"]
  /\ UNCHANGED <<trace_file, sessions, current_session_id, knowledge_base,
                 start_time, now, calls>>

\* SynthesizerAgent.synthesize, called directly
CallSynthesize(t, findings, query) ==
  /\ CanCall(t)
  /\ calls' = calls + 1
  /\ th' = [th EXCEPT ![t] =
       [Enter(t, "synthesize") EXCEPT !.pc = "r_synth_start",
          !.findings = findings, !.query = query]]
  /\ UNCHANGED <<traces, trace_file, sessions, current_session_id,
                 knowledge_base, start_time, end_time, now>>

\* SynthesizerAgent.synthesize: self._start_task("synthesis")
SynthStart(t) ==
  /\ th[t].pc = "r_synth_start"
  /\ start_time' = [start_time EXCEPT !["SynthesizerAgent"] = <<now>>]
  /\ traces' = start_task(traces, now, "SynthesizerAgent", "synthesis")
  /\ th' = [th EXCEPT ![t].pc = "r_synth_body", ![t].task_started = <<now>>]
  /\ UNCHANGED <<trace_file, sessions, current_session_id, knowledge_base,
                 end_time, now, calls>>

\* the past insights are read, the tool synthesizes (or raises after its log
\* entry), the first past insight is appended; store_insight comes next
SynthBody(t, raises) ==
  /\ th[t].pc = "r_synth_body"
  /\ traces' = log(traces, now, "SynthesisTool", "synthesis_started",
                   <<Item("findings_count", VInt(Len(th[t].findings)))>>)
  /\ LET past_insights == retrieve_insights(knowledge_base, th[t].query)
         synthesis == annotate(tool_synthesize(th[t].findings), past_insights)
     IN  th' = [th EXCEPT ![t] =
           IF raises THEN Leave(th[t], "raised")
           ELSE [th[t] EXCEPT !.pc = "store_check",
                   !.past_insights = past_insights, !.synthesis = synthesis,
                   !.topic = th[t].query,
                   !.insight = Take(synthesis, InsightChars)]]
  /\ UNCHANGED <<trace_file, sessions, current_session_id, knowledge_base,
                 start_time, end_time, now, calls>>

\* the synthesis_completed entry and self._end_task("synthesis")
SynthEnd(t) ==
  /\ th[t].pc = "r_synth_end"
  /\ end_time' = [end_time EXCEPT !["SynthesizerAgent"] = <<now>>]
  /\ traces' = end_task(
       log(traces, now, "SynthesizerAgent", "synthesis_completed",
           <<Item("output_length", VInt(StrLen(th[t].synthesis)))>>),
       now, "SynthesizerAgent", "synthesis", start_time["SynthesizerAgent"][1])
  /\ th' = [th EXCEPT ![t] =
       IF th[t].op = "research" THEN [th[t] EXCEPT !.pc = "r_sources"]
       ELSE [Leave(th[t], "ok") EXCEPT !.ret_str = th[t].synthesis]]
  /\ UNCHANGED <<trace_file, sessions, current_session_id, knowledge_base,
                 start_time, now, calls>>

\* the ResearchContext is built: one more search for the sources (it may
\* raise), the first findings, the synthesis; add_to_session comes next
Sources(t, raises) ==
  /\ th[t].pc = "r_sources"
  /\ LET results == search_results(th[t].query, SourceResults)
     IN  IF raises
         THEN /\ traces' = log(traces, now, "WebSearchTool", "search_initiated",
                               <<Item("query", VStr(th[t].query)),
                                 Item("num_results", VInt(SourceResults))>>)
              /\ th' = [th EXCEPT ![t] = Leave(th[t], "raised")]
         ELSE /\ traces' = search_log(traces, now, th[t].query, SourceResults)
              /\ th' = [th EXCEPT ![t].pc = "add_check",
                   ![t].context = <<ResearchContext(
                      th[t].query,
                      [i \in 1..Len(results) |-> results[i].url],
                      FirstK(th[t].findings, ContextFindings),
                      th[t].synthesis, now)>>]
  /\ UNCHANGED <<trace_file, sessions, current_session_id, knowledge_base,
                 start_time, end_time, now, calls>>

\* a result that counts the findings kept in the context
research_result_truncated(f) ==
  <<Item("query", VStr(f.query)), Item("synthesis", VStr(f.synthesis)),
    Item("sources_count", VInt(Len(FirstK(f.findings, ContextFindings)))),
    Item("session_id", VStr(f.session_id))>>

\* the result dict of research
research_result(f) ==
  <<Item("query", VStr(f.query)), Item("synthesis", VStr(f.synthesis)),
    Item("sources_count", VInt(Len(f.findings))),
    Item("session_id", VStr(f.session_id))>>

\* the research_completed entry; research returns its result
ResearchDone(t) ==
  /\ th[t].pc = "r_done"
  /\ traces' = log(traces, now, "ResearchAgentSystem", "research_completed",
                   research_result(th[t]))
  /\ th' = [th EXCEPT ![t] =
       [Leave(th[t], "ok") EXCEPT !.ret_dict = research_result(th[t])]]
  /\ UNCHANGED <<trace_file, sessions, current_session_id, knowledge_base,
                 start_time, end_time, now, calls>>

\* ------------------------------------------------------------ evaluator
RECURSIVE Sum(_)
Sum(xs) == IF xs = <<>> THEN 0 ELSE Head(xs) + Sum(Tail(xs))

\* round(a / n, 2) of a float a given in hundredths: to the nearest
\* hundredth, a tie to the even one
RoundDiv(a, n) ==
  LET q == a \div n
      r == a % n
  IN  IF 2 * r < n THEN q
      ELSE IF 2 * r > n THEN q + 1
      ELSE IF q % 2 = 0 THEN q ELSE q + 1

\* [t for t in traces if session_id in str(t.get("details", {}))]
session_traces(tr, session_id) ==
  LET sc == Chars(session_id)
      Keep(e) == InChars(sc, StrDict(e.details))
  IN  SelectSeq(tr, Keep)

\* the metrics dict of AgentEvaluator.evaluate_session
evaluate_metrics(tr, ss, kb, session_id) ==
  LET st == session_traces(tr, session_id)
      Completed(e) == EndsWith(e.action, "_completed")
      Timed(e) == HasKey(e.details, "duration_seconds")
      total_tasks == Len(SelectSeq(st, Completed))
      timed == SelectSeq(st, Timed)
      total_time ==
        Sum([i \in 1..Len(timed) |->
               Get(timed[i].details, "duration_seconds", VFloat(0)).f])
      history == get_session_history(ss, session_id)
      queries == IF Len(history) > 1 THEN Len(history) ELSE 1
  IN  <<Item("session_id", VStr(session_id)),
        Item("total_queries", VInt(Len(history))),
        Item("total_tasks_completed", VInt(total_tasks)),
        Item("total_time_seconds",
             IF timed = <<>> THEN VInt(0) ELSE VFloat(total_time)),
        Item("avg_time_per_query", VFloat(RoundDiv(total_time, queries))),
        Item("memory_entries", VInt(Cardinality(DOMAIN kb)))>>

\* an evaluator that reads the history with setdefault, creating the session
CallEvaluateCreating(t, session_id) ==
  /\ CanCall(t)
  /\ calls' = calls + 1
  /\ sessions' = IF session_id \in DOMAIN sessions THEN sessions
                 ELSE create_session(sessions, session_id)
  /\ LET metrics == evaluate_metrics(traces, sessions, knowledge_base, session_id)
     IN  /\ traces' = log(traces, now, "AgentEvaluator", "evaluation_completed",
                          metrics)
         /\ th' = [th EXCEPT ![t] =
              [Leave([Enter(t, "evaluate_session") EXCEPT
                        !.session_id = session_id], "ok")
                 EXCEPT !.ret_dict = metrics]]
  /\ UNCHANGED <<trace_file, current_session_id, knowledge_base,
                 start_time, end_time, now>>

\* AgentEvaluator.evaluate_session: the metrics are computed, logged, returned
CallEvaluate(t, session_id) ==
  /\ CanCall(t)
  /\ calls' = calls + 1
  /\ LET metrics == evaluate_metrics(traces, sessions, knowledge_base, session_id)
     IN  /\ traces' = log(traces, now, "AgentEvaluator", "evaluation_completed",
                          metrics)
         /\ th' = [th EXCEPT ![t] =
              [Leave([Enter(t, "evaluate_session") EXCEPT
                        !.session_id = session_id], "ok")
                 EXCEPT !.ret_dict = metrics]]
  /\ UNCHANGED <<trace_file, sessions, current_session_id, knowledge_base,
                 start_time, end_time, now>>

\* ------------------------------------------------------------ runs
\* the steps of a research call under way; Raises is what a provider may do
ResearchStep(t, Raises) ==
  \/ PlanStart(t)
  \/ PlanBody(t)
  \/ PlanEnd(t)
  \/ GatherStart(t)
  \/ \E raises \in Raises : GatherSearch(t, raises)
  \/ GatherEnd(t)
  \/ SynthStart(t)
  \/ \E raises \in Raises : SynthBody(t, raises)
  \/ StoreCheck(t)
  \/ StoreCreate(t)
  \/ StoreAppend(t)
  \/ SynthEnd(t)
  \/ \E raises \in Raises : Sources(t, raises)
  \/ AddCheck(t)
  \/ AddCreate(t)
  \/ AddAppend(t)
  \/ ResearchDone(t)

\* One caller of the stores and the tracer: every call returns before the
\* next begins.
Next ==
  \/ Tick
  \/ \E id \in SessionIds : CallCreateSession(Main, id)
  \/ \E id \in SessionIds : \E c \in DirectContexts : CallAddToSession(Main, id, c)
  \/ AddCheck(Main)
  \/ AddCreate(Main)
  \/ AddAppend(Main)
  \/ \E q \in Queries : CallStoreInsight(Main, q, Lit("note"))
  \/ StoreCheck(Main)
  \/ StoreCreate(Main)
  \/ StoreAppend(Main)
  \/ \E q \in Queries : CallRetrieveInsights(Main, q)
  \/ \E in \in LogInputs : CallLog(Main, in)
  \/ CallGetTraces(Main)
  \/ \E opens \in BOOLEAN : CallExportTraces(Main, opens)

Spec == Init /\ [][Next]_vars

\* the query and the session ids of the research calls of the runs below
SomeQuery == Lit("X")
ResearchSessions == {Lit("s1"), Lit("s2"), NoSession}

\* One caller of research and of the evaluator; no provider raises.
NextResearch ==
  \/ Tick
  \/ \E id \in ResearchSessions : CallResearch(Main, SomeQuery, id)
  \/ ResearchStep(Main, {FALSE})
  \/ \E id \in SessionIds \cup DOMAIN sessions : CallEvaluate(Main, id)

SpecResearch == Init /\ [][NextResearch]_vars

\* One caller of research; a provider may raise.
NextFault ==
  \/ Tick
  \/ \E id \in {Lit("s1"), NoSession} : CallResearch(Main, SomeQuery, id)
  \/ ResearchStep(Main, BOOLEAN)

SpecFault == Init /\ [][NextFault]_vars

\* One caller of the tracer, of research and of the evaluator.
NextTracer ==
  \/ Tick
  \/ \E in \in LogInputs : CallLog(Main, in)
  \/ CallGetTraces(Main)
  \/ \E opens \in BOOLEAN : CallExportTraces(Main, opens)
  \/ CallResearch(Main, SomeQuery, Lit("s1"))
  \/ ResearchStep(Main, {FALSE})
  \/ CallEvaluate(Main, Lit("s1"))

SpecTracer == Init /\ [][NextTracer]_vars

\* the findings handed to SynthesizerAgent.synthesize directly
DirectFindings == {<<>>, findings_of(search_results(SomeQuery, 1))}

\* One caller of the memory bank, of the synthesizer and of research.
NextMemory ==
  \/ Tick
  \/ \E q \in Queries : CallStoreInsight(Main, q, Lit("note"))
  \/ \E q \in Queries : CallRetrieveInsights(Main, q)
  \/ \E f \in DirectFindings : CallSynthesize(Main, f, SomeQuery)
  \/ CallResearch(Main, SomeQuery, Lit("s1"))
  \/ ResearchStep(Main, {FALSE})

SpecMemory == Init /\ [][NextMemory]_vars

\* Two callers of add_to_session, their steps interleaved in every way.
NextAdd ==
  \/ Tick
  \/ \E t \in Threads : \E id \in SessionIds : \E c \in DirectContexts :
       CallAddToSession(t, id, c)
  \/ \E t \in Threads : AddCheck(t)
  \/ \E t \in Threads : AddCreate(t)
  \/ \E t \in Threads : AddAppend(t)

SpecAdd == Init /\ [][NextAdd]_vars

\* the insights two callers store directly
DirectInsights == [t \in Threads |-> IF t = Main THEN Lit("note") ELSE Lit("tags")]

\* Two callers of store_insight, their steps interleaved in every way.
NextStore ==
  \/ Tick
  \/ \E t \in Threads : \E q \in Queries : CallStoreInsight(t, q, DirectInsights[t])
  \/ \E t \in Threads : StoreCheck(t)
  \/ \E t \in Threads : StoreCreate(t)
  \/ \E t \in Threads : StoreAppend(t)

SpecStore == Init /\ [][NextStore]_vars

\* ------------------------------------------------------------ summaries
\* the longest history a run begins with
MaxHistory == 4

\* InMemorySessionService.get_session_history, called directly
CallGetSessionHistory(t, id) ==
  /\ CanCall(t)
  /\ calls' = calls + 1
  /\ th' = [th EXCEPT ![t] =
       [Leave([Enter(t, "get_session_history") EXCEPT !.session_id = id], "ok")
          EXCEPT !.ret_list = get_session_history(sessions, id)]]
  /\ UNCHANGED <<traces, trace_file, sessions, current_session_id,
                 knowledge_base, start_time, end_time, now>>

\* InMemorySessionService.get_context_summary, called directly
CallGetContextSummary(t, id) ==
  /\ CanCall(t)
  /\ calls' = calls + 1
  /\ th' = [th EXCEPT ![t] =
       [Leave([Enter(t, "get_context_summary") EXCEPT !.session_id = id], "ok")
          EXCEPT !.ret_str = get_context_summary(sessions, id)]]
  /\ UNCHANGED <<traces, trace_file, sessions, current_session_id,
                 knowledge_base, start_time, end_time, now>>

\* the contexts of the histories a run begins with: one with the synthesis
\* of no findings, one with the longer synthesis of one finding
SummaryContexts ==
  {ResearchContext(Lit("X"), <<>>, <<>>, tool_synthesize(<<>>), 0),
   ResearchContext(Lit("Y"), <<>>, <<>>,
                   tool_synthesize(findings_of(search_results(Lit("Y"), 1))), 0)}

\* the stores a run begins with: no session, or the session s1 after up to
\* MaxHistory add_to_session calls
SummaryStores ==
  {<<>>} \cup
  {create_session(<<>>, Lit("s1"))} \cup
  {[id \in {Lit("s1")} |-> h] :
     h \in UNION {[1..n -> SummaryContexts] : n \in 1..MaxHistory}}

InitSummary ==
  /\ traces = <<>>
  /\ trace_file = <<>>
  /\ sessions \in SummaryStores
  /\ current_session_id = IF sessions = <<>> THEN <<>> ELSE <<Lit("s1")>>
  /\ knowledge_base = <<>>
  /\ start_time = [a \in Agents |-> <<>>]
  /\ end_time = [a \in Agents |-> <<>>]
  /\ now = 0
  /\ calls = 0
  /\ th = [t \in Threads |-> IdleFrame]

\* One caller of the session store, on stores that hold a history already.
NextSummary ==
  \/ \E id \in SessionIds : \E c \in SummaryContexts : CallAddToSession(Main, id, c)
  \/ AddCheck(Main)
  \/ AddCreate(Main)
  \/ AddAppend(Main)
  \/ \E id \in SessionIds : CallGetSessionHistory(Main, id)
  \/ \E id \in SessionIds : CallGetContextSummary(Main, id)

SpecSummary == InitSummary /\ [][NextSummary]_vars

\* ------------------------------------------------------------ two callers
\* the session each caller researches in
CallerSession == [t \in Threads |-> IF t = Main THEN Lit("s1") ELSE Lit("s2")]

\* a caller runs while every other caller waits for a provider or is between
\* calls: the callers switch where a search or a synthesis is under way
Runnable ==
  {t \in Threads : \A u \in Threads \ {t} : th[u].pc \in WorkPoints \cup {"idle"}}

\* Two callers of research on the same system, each in its session.
NextConcurrent ==
  \/ Tick
  \/ \E t \in Runnable : CallResearch(t, SomeQuery, CallerSession[t])
  \/ \E t \in Runnable : ResearchStep(t, {FALSE})

SpecConcurrent == Init /\ [][NextConcurrent]_vars

\* ------------------------------------------------------------ two sessions
\* the sessions researched in, and the session evaluated: s1 is the
\* beginning of s10 and is not part of s2
ResearchedSessions == {Lit("s2"), Lit("s10")}
EvaluatedSession == Lit("s1")

\* One caller of research in some sessions and of the evaluator on another.
NextIsolation ==
  \/ Tick
  \/ \E id \in ResearchedSessions : CallResearch(Main, SomeQuery, id)
  \/ ResearchStep(Main, {FALSE})
  \/ CallEvaluate(Main, EvaluatedSession)

SpecIsolation == Init /\ [][NextIsolation]_vars

\* ------------------------------------------------------------ properties
\* a is a prefix of b
IsPrefix(a, b) == Len(a) <= Len(b) /\ SubSeq(b, 1, Len(a)) = a

\* thread t is back from a call of op that returned normally
Returned(t, op) ==
  th[t].pc = "idle" /\ th[t].op = op /\ th[t].status = "ok"

\* thread t is back from a call of op that raised
Raised(t, op) ==
  th[t].pc = "idle" /\ th[t].op = op /\ th[t].status = "raised"

\* the history of the session of t's call, now and when the call began
HistoryNow(t) == get_session_history(sessions, th[t].session_id)
HistoryBefore(t) == get_session_history(th[t].pre_sessions, th[t].session_id)

\* C1: create_session(id) on a session whose history holds one or more
\* contexts leaves that history as it was and returns id.
C1_CreateSessionKeepsHistory ==
  \A t \in Threads :
    (Returned(t, "create_session") /\ HistoryBefore(t) # <<>>) =>
      /\ HistoryNow(t) = HistoryBefore(t)
      /\ th[t].ret_str = th[t].session_id

\* C2: every add_to_session(id, ctx) call of a sequential caller returns with
\* history(id) equal to the history before the call (empty when the session
\* was absent, the call then creating it) followed by ctx: N such calls leave
\* exactly their N contexts, in call order.
C2_AppendsInCallOrder ==
  \A t \in Threads :
    Returned(t, "add_to_session") =>
      /\ th[t].session_id \in DOMAIN sessions
      /\ HistoryNow(t) = Append(HistoryBefore(t), th[t].context[1])

\* C2 witness: a second append to a session has returned, after a first one
\* with another context.
C2_Witness ==
  /\ Returned(Main, "add_to_session")
  /\ Len(HistoryNow(Main)) = 2
  /\ HistoryNow(Main)[1] # HistoryNow(Main)[2]

\* C3: two add_to_session calls on the same session id, absent when each of
\* them began, have both returned: both contexts are in history(id).
C3_ConcurrentAppendsKept ==
  LET a == th["t1"]
      b == th["t2"]
  IN  (/\ Returned("t1", "add_to_session")
       /\ Returned("t2", "add_to_session")
       /\ a.session_id = b.session_id
       /\ a.session_id \notin DOMAIN a.pre_sessions
       /\ b.session_id \notin DOMAIN b.pre_sessions) =>
        /\ Len(HistoryNow("t1")) = 2
        /\ \A t \in Threads :
             \E i \in 1..Len(HistoryNow(t)) : HistoryNow(t)[i] = th[t].context[1]

C5_ResearchAppendsOneContext ==
  \A t \in Threads :
    (Returned(t, "research") /\ th[t].arg_session # NoSession) =>
      LET context == th[t].context[1]
          count == Get(th[t].ret_dict, "sources_count", VInt(0)).i
      IN  /\ th[t].session_id = th[t].arg_session
          /\ HistoryNow(t) = Append(HistoryBefore(t), context)
          /\ \A id \in DOMAIN th[t].pre_sessions \ {th[t].session_id} :
               sessions[id] = th[t].pre_sessions[id]
          /\ DOMAIN sessions = DOMAIN th[t].pre_sessions \cup {th[t].session_id}
          /\ count = Len(generate_search_queries(th[t].query)) * NumSources
          /\ count = Len(th[t].findings)
          /\ Len(context.findings) = ContextFindings
          /\ Len(context.sources) = SourceResults
          /\ count > Len(context.findings)
          /\ Get(th[t].ret_dict, "session_id", VStr(<<>>)).s = th[t].arg_session

\* C5 witness: a research call with an explicit session id has returned, the
\* session holding a context before it.
C5_Witness ==
  /\ Returned(Main, "research")
  /\ th[Main].arg_session # NoSession
  /\ HistoryBefore(Main) # <<>>

\* the entries the call of thread t has logged so far
CallEntries(t) == SubSeq(traces, Len(th[t].pre_traces) + 1, Len(traces))

IsStageEntry(e) == e.action \in {"task_started", "task_completed"}
IsSearchCompleted(e) == e.action = "search_completed"

\* the started and completed entries of the stages of t's call, in trace order
StageEntries(t) ==
  LET es == SelectSeq(CallEntries(t), IsStageEntry)
  IN  [i \in 1..Len(es) |-> <<es[i].agent, es[i].action>>]

\* the searches t's call has completed
SearchesCompleted(t) == Len(SelectSeq(CallEntries(t), IsSearchCompleted))

ExpectedStages ==
  <<<<"CoordinatorAgent", "task_started">>,
    <<"CoordinatorAgent", "task_completed">>,
    <<"ResearcherAgent", "task_started">>,
    <<"ResearcherAgent", "task_completed">>,
    <<"SynthesizerAgent", "task_started">>,
    <<"SynthesizerAgent", "task_completed">>>>

\* a step that makes some session's history longer
HistoryGrows ==
  \E id \in DOMAIN sessions' :
    Len(sessions'[id]) > Len(get_session_history(sessions, id))

\* C6: at every step of a research call the stage entries it has logged are
\* an initial part of: Coordinator started, completed, Researcher started,
\* completed, Synthesizer started, completed; they are all six when the call
\* returns; and the step that appends the context to the session comes after
\* all six and after the search for the sources (one search per sub-query
\* and one more).
C6_StagesInSequence ==
  [][\A t \in Threads :
       /\ th'[t].op = "research" =>
            /\ IsPrefix(StageEntries(t)', ExpectedStages)
            /\ Returned(t, "research")' => StageEntries(t)' = ExpectedStages
       /\ (th[t].op = "research" /\ HistoryGrows) =>
            /\ StageEntries(t) = ExpectedStages
            /\ SearchesCompleted(t) =
                 Len(generate_search_queries(th[t].query)) + 1]_vars

\* C6 witness: a research call has returned, all six stage entries logged and
\* its context in the session.
C6_Witness ==
  /\ Returned(Main, "research")
  /\ StageEntries(Main) = ExpectedStages
  /\ HistoryNow(Main) # <<>>

\* C7: a research call in which a provider raised leaves the history of its
\* session as it was before the call.
C7_FailedResearchKeepsHistory ==
  \A t \in Threads :
    Raised(t, "research") => HistoryNow(t) = HistoryBefore(t)

\* C8: AgentLogger.log returns normally whatever the details, having appended
\* exactly one entry.
C8_LogNeverRaises ==
  \A t \in Threads :
    (th[t].pc = "idle" /\ th[t].op = "log") =>
      /\ th[t].status = "ok"
      /\ Len(traces) = Len(th[t].pre_traces) + 1

\* a step that is a call of op by the one caller
IsCall(op) == calls' = calls + 1 /\ th'[Main].op = op

\* C9: every step of log, get_traces, export_traces, research and
\* evaluate_session keeps the entries of the trace, in their places; a log
\* call adds exactly one entry, at the end; get_traces and export_traces add
\* none.
C9_TraceAppendOnly ==
  [][/\ IsPrefix(traces, traces')
     /\ IsCall("log") =>
          /\ Len(traces') = Len(traces) + 1
          /\ traces'[Len(traces')].agent = "User"
     /\ (IsCall("get_traces") \/ IsCall("export_traces")) => traces' = traces]_vars

\* C9 witness: a log call has been made on a trace that held the entries of a
\* research call, and has added its entry after them.
C9_Witness ==
  /\ th[Main].pc = "idle"
  /\ th[Main].op = "log"
  /\ Len(th[Main].pre_traces) >= 2
  /\ traces = Append(th[Main].pre_traces, traces[Len(traces)])

\* the insights of the topic of t's call, now and when the call began
InsightsNow(t, topic) == retrieve_insights(knowledge_base, topic)
InsightsBefore(t, topic) == retrieve_insights(th[t].pre_kb, topic)

\* C10: during and after every call of store_insight, retrieve_insights,
\* SynthesizerAgent.synthesize and research, each topic's insights as they
\* were when the call began are an initial part of what they are now;
\* retrieve_insights returns them and changes nothing; store_insight and
\* synthesize (within research or alone, empty findings included) return
\* with the insights of their topic longer by exactly one, the one stored.
C10_InsightsNeverShrink ==
  \A t \in Threads :
    /\ \A topic \in DOMAIN th[t].pre_kb :
         IsPrefix(InsightsBefore(t, topic), InsightsNow(t, topic))
    /\ Returned(t, "retrieve_insights") =>
         /\ knowledge_base = th[t].pre_kb
         /\ th[t].ret_list = InsightsNow(t, th[t].topic)
    /\ (\/ Returned(t, "store_insight")
        \/ Returned(t, "synthesize")
        \/ Returned(t, "research")) =>
         /\ InsightsNow(t, th[t].topic) =
              Append(InsightsBefore(t, th[t].topic), th[t].insight)
         /\ \A topic \in DOMAIN th[t].pre_kb \ {th[t].topic} :
              knowledge_base[topic] = th[t].pre_kb[topic]
    /\ (Returned(t, "synthesize") \/ Returned(t, "research")) =>
         th[t].topic = th[t].query

\* C10 witness: synthesize has returned from a call with no findings, on a
\* topic that held an insight.
C10_Witness ==
  /\ Returned(Main, "synthesize")
  /\ th[Main].findings = <<>>
  /\ InsightsBefore(Main, th[Main].query) # <<>>
  /\ Len(InsightsNow(Main, th[Main].query)) = 2

\* C11: two store_insight calls on the same topic, absent when each of them
\* began, have both returned: both insights are in retrieve_insights(topic).
C11_ConcurrentInsightsKept ==
  LET a == th["t1"]
      b == th["t2"]
  IN  (/\ Returned("t1", "store_insight")
       /\ Returned("t2", "store_insight")
       /\ a.topic = b.topic
       /\ a.topic \notin DOMAIN a.pre_kb
       /\ b.topic \notin DOMAIN b.pre_kb) =>
        /\ Len(InsightsNow("t1", a.topic)) = 2
        /\ \A t \in Threads :
             \E i \in 1..Len(InsightsNow(t, a.topic)) :
               InsightsNow(t, a.topic)[i] = th[t].insight

\* how many times the characters nc occur in the characters hc
Occurrences(nc, hc) ==
  Cardinality({i \in 1..(Len(hc) - Len(nc) + 1) :
                 SubSeq(hc, i, i + Len(nc) - 1) = nc})

\* the text a synthesize call, alone or within research, has returned
SynthesisOf(t) ==
  IF th[t].op = "synthesize" THEN th[t].ret_str
  ELSE Get(th[t].ret_dict, "synthesis", VStr(<<>>)).s

IsSearchInitiated(e) == e.action = "search_initiated"

\* the characters of the finding built from result j of the search for q
ExpectedFinding(q, j) ==
  Chars(Lit("Research Result ")) \o Chars(IntStr(j)) \o Chars(Lit(" for: "))
  \o Chars(q) \o Chars(Lit(": "))
  \o Chars(Lit("This source provides information about ")) \o Chars(q)
  \o Chars(Lit(". Key findings include relevant data points and analysis."))

\* C13: while conduct_research loops over the m sub-queries of its plan, and
\* when it has returned, it has searched once for each of the sub-queries
\* done so far, in plan order, and its findings are k = num_sources for each
\* of them: finding number i*k + j is built from result j of the search for
\* sub-query i; in the end there are m*k findings.
C13_FindingsInPlanOrder ==
  \A t \in Threads :
    (/\ th[t].op = "research"
     /\ th[t].pc \in {"r_gather_search", "r_gather_end", "r_synth_start"}) =>
      LET qs == Get(th[t].plan, "search_queries", VList(<<>>)).l
          k == Get(th[t].plan, "num_sources", VInt(0)).i
          done == IF th[t].pc = "r_gather_search" THEN th[t].idx - 1
                  ELSE Len(qs)
          searches == SelectSeq(CallEntries(t), IsSearchInitiated)
      IN  /\ Len(th[t].findings) = done * k
          /\ \A i \in 0..(done - 1) : \A j \in 1..k :
               Chars(th[t].findings[i * k + j]) = ExpectedFinding(qs[i + 1], j)
          /\ Len(searches) = done
          /\ \A i \in 1..done :
               Get(searches[i].details, "query", VStr(<<>>)).s = qs[i]

\* C13 witness: conduct_research has returned the findings of three
\* sub-queries, five for each.
C13_Witness ==
  /\ th[Main].op = "research"
  /\ th[Main].pc = "r_synth_start"
  /\ Len(Get(th[Main].plan, "search_queries", VList(<<>>)).l) = 3
  /\ Len(th[Main].findings) = 15
  /\ th[Main].findings[1] # th[Main].findings[6]
  /\ th[Main].findings[1] # th[Main].findings[2]

\* C14: get_context_summary(id) of a session holding n >= 1 contexts returns
\* the header with the count n and then min(n, 3) lines, no more: line i is
\* for context number n - min(n, 3) + i of the history, with its number i,
\* its query and the first 100 characters of its synthesis.
C14_SummaryListsLastThree ==
  \A t \in Threads :
    (Returned(t, "get_context_summary") /\ HistoryNow(t) # <<>>) =>
      LET h == HistoryNow(t)
          n == Len(h)
          m == IF n < 3 THEN n ELSE 3
          out == Chars(th[t].ret_str)
          cut(x) == IF Len(x) < 100 THEN x ELSE SubSeq(x, 1, 100)
          line(i) == Chars(IntStr(i)) \o <<".", " ">>
                     \o Chars(h[n - m + i].query) \o <<":", " ">>
                     \o cut(Chars(h[n - m + i].synthesis))
                     \o <<".", ".", ".", "\n">>
      IN  /\ out = Chars(Lit("Previous research in this session ("))
                   \o Chars(IntStr(n)) \o Chars(Lit(" queries):\n"))
                   \o Concat([i \in 1..m |-> line(i)])
          /\ Occurrences(<<".", ".", ".", "\n">>, out) = m

\* C14 witness: the summary of a session of four contexts or more has been
\* returned, the contexts left out and the contexts listed not all the same.
C14_Witness ==
  /\ Returned(Main, "get_context_summary")
  /\ Len(HistoryNow(Main)) >= 4
  /\ HistoryNow(Main)[1] # HistoryNow(Main)[2]
  /\ HistoryNow(Main)[Len(HistoryNow(Main))] # HistoryNow(Main)[Len(HistoryNow(Main)) - 1]

\* C15: get_session_history and get_context_summary of a session id that is
\* not in the store return normally, the first with the empty list, the
\* second with "No previous research in this session."; the store is as it was.
C15_UnknownSessionIsEmpty ==
  \A t \in Threads :
    (/\ th[t].pc = "idle"
     /\ th[t].op \in {"get_session_history", "get_context_summary"}
     /\ th[t].session_id \notin DOMAIN th[t].pre_sessions) =>
      /\ th[t].status = "ok"
      /\ sessions = th[t].pre_sessions
      /\ th[t].op = "get_session_history" => th[t].ret_list = <<>>
      /\ th[t].op = "get_context_summary" =>
           Chars(th[t].ret_str) = Chars(Lit("No previous research in this session."))

\* C15 witness: the summary of a session id that was never created has been
\* returned, by a store that holds another session.
C15_Witness ==
  /\ Returned(Main, "get_context_summary")
  /\ th[Main].session_id \notin DOMAIN sessions
  /\ sessions # <<>>

IsTaskCompleted(e) == e.action = "task_completed" /\ e.agent \in Agents
IsResearchStarted(e) == e.action = "research_started"
IsEvaluation(e) == e.action = "evaluation_completed"

\* a number of the metrics, in hundredths: an int or a float
Hundredths(v) == IF "f" \in DOMAIN v THEN v.f ELSE v.i * Centi

\* the trace tr holds the entries of one or more research calls on session s
\* and of nothing else
OnlyResearchOn(tr, s) ==
  /\ \E i \in 1..Len(tr) : IsResearchStarted(tr[i])
  /\ \A i \in 1..Len(tr) :
       /\ tr[i].agent # "User"
       /\ ~IsEvaluation(tr[i])
       /\ IsResearchStarted(tr[i]) =>
            Get(tr[i].details, "session_id", VStr(<<>>)).s = s

\* C16: evaluate_session(s), called after research calls on s and nothing
\* else, returns a total_tasks_completed that counts the task_completed
\* entries of the three agents in each of those calls, and a
\* total_time_seconds that is the sum of their duration_seconds.
C16_EvaluateCountsStages ==
  \A t \in Threads :
    (/\ Returned(t, "evaluate_session")
     /\ OnlyResearchOn(th[t].pre_traces, th[t].session_id)) =>
      LET stages == SelectSeq(th[t].pre_traces, IsTaskCompleted)
          durations == [i \in 1..Len(stages) |->
                          Get(stages[i].details, "duration_seconds", VFloat(0)).f]
      IN  /\ Get(th[t].ret_dict, "total_tasks_completed", VInt(0)).i >= Len(stages)
          /\ Hundredths(Get(th[t].ret_dict, "total_time_seconds", VInt(0)))
               = Sum(durations)

\* the session ids research generates from the clock
GeneratedIds == {generated_session_id(c) : c \in 0..MaxTime}

\* C17: no step of a run of research calls takes a context out of the
\* history of a session whose id research generated: the context each
\* returned call appended stays in the history of the id it returned.
C17_GeneratedSessionsKeepContexts ==
  [][\A id \in DOMAIN sessions \cap GeneratedIds :
       /\ id \in DOMAIN sessions'
       /\ IsPrefix(sessions[id], sessions'[id])]_vars

\* the pc at which a call is about to run _end_task, and the agent
EndTaskAt ==
  [r_plan_end |-> "CoordinatorAgent", r_gather_end |-> "ResearcherAgent",
   r_synth_end |-> "SynthesizerAgent"]

\* C18: the step in which a research call runs _end_task appends a
\* task_completed entry whose duration_seconds is the time since that call's
\* own _start_task of the stage, whatever the other call did meanwhile.
C18_DurationFromOwnStart ==
  [][\A t \in Threads :
       (/\ th[t].op = "research"
        /\ th[t].pc \in DOMAIN EndTaskAt
        /\ th'[t].pc # th[t].pc) =>
         LET e == traces'[Len(traces')]
         IN  /\ e.agent = EndTaskAt[th[t].pc]
             /\ e.action = "task_completed"
             /\ Get(e.details, "duration_seconds", VFloat(0)).f
                  = (now - th[t].task_started[1]) * Centi]_vars

\* C19: evaluate_session(s) called right after an evaluate_session(s), the
\* entry of which is the last of the trace, returns the metrics that call
\* returned (they are the details of its entry).
C19_EvaluateRepeatable ==
  \A t \in Threads :
    (/\ Returned(t, "evaluate_session")
     /\ th[t].pre_traces # <<>>
     /\ LET last == th[t].pre_traces[Len(th[t].pre_traces)]
        IN  /\ IsEvaluation(last)
            /\ last.agent = "AgentEvaluator"
            /\ Get(last.details, "session_id", VStr(<<>>)).s = th[t].session_id) =>
      th[t].ret_dict = th[t].pre_traces[Len(th[t].pre_traces)].details

\* the trace tr holds the entries of one or more research calls, none of
\* them on session s, and of nothing else
OnlyResearchOff(tr, s) ==
  /\ \E i \in 1..Len(tr) : IsResearchStarted(tr[i])
  /\ \A i \in 1..Len(tr) :
       /\ tr[i].agent # "User"
       /\ ~IsEvaluation(tr[i])
       /\ IsResearchStarted(tr[i]) =>
            Get(tr[i].details, "session_id", VStr(<<>>)).s # s

\* C20: evaluate_session(A), called after research calls on other sessions
\* only, returns the total_tasks_completed and total_time_seconds it returns
\* before any of them: none and zero.
C20_EvaluationIsolated ==
  \A t \in Threads :
    (/\ Returned(t, "evaluate_session")
     /\ OnlyResearchOff(th[t].pre_traces, th[t].session_id)) =>
      /\ Get(th[t].ret_dict, "total_tasks_completed", VInt(0)).i = 0
      /\ Hundredths(Get(th[t].ret_dict, "total_time_seconds", VInt(0))) = 0
====
